---- MODULE Spec2Model ----
(***************************************************************************)
(* Model of the configuration subsystem of wired-notify,                   *)
(* src/config/mod.rs: the process-wide CONFIG static, the Locator          *)
(* (installed_config), the Loader/Validator (load, validate), the embedded *)
(* default, the Registry operations (init, get, get_mut, try_reload) and   *)
(* the set-up of the directory watcher (watch).                            *)
(*                                                                         *)
(* The filesystem and the environment are outside the program: every       *)
(* probe of them (exists, read_to_string, canonicalize, inotify) is an     *)
(* input of the operation that makes it.                                   *)
(***************************************************************************)
EXTENDS Integers, Sequences, FiniteSets, TLC

----------------------------------------------------------------------------
(* Bounds *)

\* `timeout' values a document may carry: 0..MaxTimeout.
MaxTimeout == 1

\* Shortcut key codes a document may carry: 1..MaxKey.
MaxKey == 4

\* Distinct TextDimensions values: 0..MaxDim.
MaxDim == 1

\* Distinct images a notification may carry: 1..MaxImage.
MaxImage == 1

\* Change events the watcher's channel holds at most.
MaxQueue == 2

----------------------------------------------------------------------------
(* Option and Result *)

None == [some |-> FALSE]
Some(v) == [some |-> TRUE, val |-> v]

Ok(v) == [ok |-> TRUE, val |-> v]
Err(e) == [ok |-> FALSE, err |-> e]

----------------------------------------------------------------------------
(* Data *)

\* The variants of LayoutElement that a root LayoutBlock may carry.
LayoutElement == {"NotificationBlock", "TextBlock"}

\* The four places the Locator probes, in its order.
Paths == 1..4

\* struct ShortcutsConfig: four key codes.
Keys == 1..MaxKey

ShortcutsConfig ==
    [notification_close : Keys, notification_closeall : Keys,
     notification_pause : Keys, notification_url : Keys]

\* The binding of the embedded default document.
DefaultBinding ==
    [notification_close |-> 1, notification_closeall |-> 2,
     notification_pause |-> 3, notification_url |-> 4]

\* A file as the Loader finds it: whether it can be read, whether its text
\* is well-formed RON of the Config schema, and what the text says.
Documents ==
    [readable : BOOLEAN, wellformed : BOOLEAN,
     root : LayoutElement, timeout : 0..MaxTimeout, debug : BOOLEAN,
     shortcuts : ShortcutsConfig]

\* The files the Registry operations are given.  They copy the shortcuts
\* with the rest of the Config and never read them, so these files carry
\* one binding; the Loader is given every document.
Files ==
    [readable : BOOLEAN, wellformed : BOOLEAN,
     root : LayoutElement, timeout : 0..MaxTimeout, debug : BOOLEAN,
     shortcuts : {DefaultBinding}]

\* struct Config, reduced to the root layout element, one scalar, the
\* debug flag and the shortcuts.
Configs ==
    [layout : [params : LayoutElement], timeout : 0..MaxTimeout,
     debug : BOOLEAN, shortcuts : ShortcutsConfig]

\* What the Locator's probes find: whether the XDG base directories can be
\* built, whether each candidate exists, whether HOME is set.
Envs ==
    [xdg_ok : BOOLEAN, xdg_wired : BOOLEAN, xdg_base : BOOLEAN,
     home : BOOLEAN, home_config : BOOLEAN, home_dot : BOOLEAN]

\* What watch() finds: whether the notify backend can be spawned, whether
\* the containing directory exists (canonicalize), whether it may be watched.
WatchEnvs == [spawn : BOOLEAN, dir_exists : BOOLEAN, watchable : BOOLEAN]

----------------------------------------------------------------------------
(* Loader / Validator *)

\* std::fs::read_to_string
read_to_string(file) ==
    IF file.readable
    THEN Ok([wellformed |-> file.wellformed, root |-> file.root,
             timeout |-> file.timeout, debug |-> file.debug,
             shortcuts |-> file.shortcuts])
    ELSE Err("Io")

\* ron::de::from_str::<Config>
from_str(text) ==
    IF text.wellformed
    THEN Ok([layout |-> [params |-> text.root],
             timeout |-> text.timeout, debug |-> text.debug,
             shortcuts |-> text.shortcuts])
    ELSE Err("Ron")

validate_any(cfg) == Ok(cfg)

validate_unique_keys(cfg) ==
    IF cfg.layout.params # "NotificationBlock"
    THEN Err("Validate")
    ELSE IF Cardinality({cfg.shortcuts.notification_close,
                         cfg.shortcuts.notification_closeall,
                         cfg.shortcuts.notification_pause,
                         cfg.shortcuts.notification_url}) < 4
    THEN Err("Validate")
    ELSE Ok(cfg)

validate(cfg) ==
    IF cfg.layout.params = "NotificationBlock"
    THEN Ok(cfg)
    ELSE Err("Validate")

load_novalidate(file) ==
    LET cfg_string == read_to_string(file) IN
    IF ~cfg_string.ok
    THEN Err("Io")
    ELSE LET config == from_str(cfg_string.val) IN
         IF config.ok THEN Ok(config.val) ELSE Err("Ron")

load_notfound(file) ==
    LET cfg_string == read_to_string(file) IN
    IF ~cfg_string.ok
    THEN Err("NotFound")
    ELSE LET config == from_str(cfg_string.val) IN
         IF config.ok THEN validate(config.val) ELSE Err("Ron")

load(file) ==
    LET cfg_string == read_to_string(file) IN
    IF ~cfg_string.ok
    THEN Err("Io")
    ELSE LET config == from_str(cfg_string.val) IN
         IF config.ok THEN validate(config.val) ELSE Err("Ron")

\* The text of ../wired.ron, compiled in by include_str!.
wired_ron ==
    [wellformed |-> TRUE, root |-> "NotificationBlock",
     timeout |-> 0, debug |-> FALSE, shortcuts |-> DefaultBinding]

\* impl Default for Config: parses the embedded text, without validate();
\* a parse failure is an `expect' panic.
Config_default == from_str(wired_ron)

----------------------------------------------------------------------------
(* Locator *)

installed_config_dot_first(env) ==
    IF env.xdg_ok /\ env.xdg_wired THEN Some(1)
    ELSE IF env.xdg_ok /\ env.xdg_base THEN Some(2)
    ELSE IF env.home /\ env.home_dot THEN Some(4)
    ELSE IF env.home /\ env.home_config THEN Some(3)
    ELSE None

installed_config(env) ==
    IF env.xdg_ok /\ env.xdg_wired THEN Some(1)
    ELSE IF env.xdg_ok /\ env.xdg_base THEN Some(2)
    ELSE IF env.home /\ env.home_config THEN Some(3)
    ELSE IF env.home /\ env.home_dot THEN Some(4)
    ELSE None

----------------------------------------------------------------------------
(* TextDimensionVariants *)

\* struct TextDimensions, by value.
TextDimensions == 0..MaxDim

TextDimensionVariants ==
    [dimensions : TextDimensions, dimensions_image_hint : TextDimensions,
     dimensions_image_app : TextDimensions,
     dimensions_image_both : TextDimensions]

\* Notification, reduced to the two Option fields get_dimensions reads.
Images == {None} \cup {Some(i) : i \in 1..MaxImage}

Notifications == [app_image : Images, hint_image : Images]

\* A reference to a field of `self': which field, and what it holds.
Field(self, name) == [of |-> name, val |-> self[name]]

get_dimensions_swapped(self, notification) ==
    IF notification.app_image.some /\ notification.hint_image.some
    THEN Field(self, "dimensions_image_both")
    ELSE IF notification.app_image.some
    THEN Field(self, "dimensions_image_hint")
    ELSE IF notification.hint_image.some
    THEN Field(self, "dimensions_image_app")
    ELSE Field(self, "dimensions")

get_dimensions(self, notification) ==
    LET app == notification.app_image.some
        hint == notification.hint_image.some
    IN
    CASE app /\ hint -> Field(self, "dimensions_image_both")
      [] app /\ ~hint -> Field(self, "dimensions_image_app")
      [] ~app /\ hint -> Field(self, "dimensions_image_hint")
      [] ~app /\ ~hint -> Field(self, "dimensions")

----------------------------------------------------------------------------
(* Watcher set-up *)

\* Config::watch: "PanicSpawn" and "PanicCanonicalize" are the two `expect'
\* failures, Err("Watch") the reported error, Ok the established watch.
watch(path, wenv) ==
    IF ~wenv.spawn THEN "PanicSpawn"
    ELSE IF ~wenv.dir_exists THEN "PanicCanonicalize"
    ELSE IF wenv.watchable THEN "Ok"
    ELSE "ErrWatch"

WatchPanics == {"PanicSpawn", "PanicCanonicalize"}

----------------------------------------------------------------------------
(* State *)

VARIABLES
    CONFIG,     \* static mut CONFIG: Option<Config>
    pc,         \* "running", or "panicked" once an assert!/expect has failed
    mut_ref,    \* a &'static mut Config returned by get_mut() is held
    watching,   \* a ConfigWatcher is alive
    installed,  \* history: who last assigned CONFIG, what, and whether it
                \* was written in place since
    last,       \* history: the last call, its inputs and its outcome
    cw,         \* the ConfigWatcher: its filesystem subscription, its
                \* receiver and the change events queued in the channel
    shut,       \* history: whether the ConfigWatcher was dropped, and
                \* whether an event-triggered reload was applied after that
    reader,     \* a caller's reference obtained from get(), into the
                \* Config and its layout tree
    obs,        \* what that caller last read through its reference
    pure        \* the call of a pure function: its input and its result

vars ==
    <<CONFIG, pc, mut_ref, watching, installed, last,
      cw, shut, reader, obs, pure>>

registry == <<CONFIG, pc, mut_ref, watching, installed, last>>

\* What the Registry operations leave alone.
chan == <<cw, shut>>
aux == <<reader, obs, pure>>

\* No ConfigWatcher, and the one Config::watch returns.
NoWatcher == [subscribed |-> FALSE, receiver |-> FALSE, queue |-> <<>>]
NewWatcher == [subscribed |-> TRUE, receiver |-> TRUE, queue |-> <<>>]

NoReader == [held |-> FALSE, dangling |-> FALSE, old |-> None]

NoFile ==
    [readable |-> FALSE, wellformed |-> FALSE,
     root |-> "TextBlock", timeout |-> 0, debug |-> FALSE,
     shortcuts |-> DefaultBinding]

NoWatchEnv == [spawn |-> TRUE, dir_exists |-> TRUE, watchable |-> TRUE]

\* The record of a call: op, the CONFIG it found, what the Locator returned,
\* the path and the file it loaded (if any), load's result, watch's inputs
\* and outcome, the reference or watcher it returned, and whether it
\* panicked.  streak/base: the number of failing reloads in a row (capped)
\* and the CONFIG before the first of them.
Call(op) ==
    [op |-> op, pre |-> CONFIG, found |-> None, path |-> None,
     file |-> NoFile, loaded |-> None, wenv |-> NoWatchEnv,
     watch |-> "NotCalled", ret |-> None, watcher |-> "NotReturned",
     panicked |-> FALSE, streak |-> 0, base |-> None]

\* The process at start: nothing installed, nothing watched.
Start ==
    /\ CONFIG = None
    /\ pc = "running"
    /\ mut_ref = FALSE
    /\ watching = FALSE
    /\ installed = [by |-> "nobody", cfg |-> None, written |-> FALSE]
    /\ last = [Call("start") EXCEPT !.pre = None]
    /\ cw = NoWatcher
    /\ shut = [stopped |-> FALSE, discarded |-> 0, late |-> FALSE]
    /\ reader = NoReader
    /\ obs = None

Init ==
    /\ Start
    /\ pure = [fn |-> "none"]

----------------------------------------------------------------------------
(* Registry *)

init_assert_off(cur) == TRUE

\* assert!(CONFIG.is_none())
init_assert(cur) == ~cur.some

init_config_nofallback(cfg) ==
    IF cfg.ok THEN Some(cfg.val) ELSE None

\* The value init() assigns to CONFIG after a path was found: the loaded
\* Config, or the embedded default when load failed.
init_config(cfg) ==
    IF cfg.ok THEN Some(cfg.val) ELSE Some(Config_default.val)

init_watch_if_loaded(path, cfg, wenv) ==
    IF cfg.ok THEN watch(path, wenv) ELSE "NotCalled"

\* init() watches the path it found, whatever load returned.
init_watch(path, cfg, wenv) == watch(path, wenv)

init ==
    /\ pc = "running"
    /\ IF ~init_assert(CONFIG)
       THEN /\ pc' = "panicked"
            /\ last' = [Call("init") EXCEPT !.panicked = TRUE]
            /\ UNCHANGED <<CONFIG, mut_ref, watching, installed, cw>>
       ELSE \E cfg_file \in {installed_config(env) : env \in Envs} :
            IF cfg_file.some
            THEN \E file \in Files, wenv \in WatchEnvs :
                 LET cfg == load(file)
                     new == init_config(cfg)
                     w == init_watch(cfg_file.val, cfg, wenv)
                 IN
                 IF ~cfg.ok /\ ~Config_default.ok
                 THEN \* Config::default() panics before anything is assigned
                      /\ pc' = "panicked"
                      /\ last' = [Call("init") EXCEPT
                                    !.found = cfg_file, !.path = cfg_file,
                                    !.file = file, !.loaded = cfg,
                                    !.panicked = TRUE]
                      /\ UNCHANGED <<CONFIG, mut_ref, watching, installed, cw>>
                 ELSE /\ CONFIG' = new
                      /\ installed' = [by |-> "init", cfg |-> new,
                                       written |-> FALSE]
                      /\ pc' = IF w \in WatchPanics THEN "panicked" ELSE pc
                      /\ watching' = (watching \/ w = "Ok")
                      /\ cw' = IF w = "Ok" THEN NewWatcher ELSE cw
                      /\ last' = [Call("init") EXCEPT
                                    !.found = cfg_file, !.path = cfg_file,
                                    !.file = file, !.loaded = cfg,
                                    !.wenv = wenv, !.watch = w,
                                    !.watcher =
                                        IF w = "Ok" THEN "Some"
                                        ELSE IF w = "ErrWatch" THEN "None"
                                        ELSE "NotReturned",
                                    !.panicked = (w \in WatchPanics)]
                      /\ UNCHANGED mut_ref
            ELSE IF ~Config_default.ok
                 THEN /\ pc' = "panicked"
                      /\ last' = [Call("init") EXCEPT !.panicked = TRUE]
                      /\ UNCHANGED <<CONFIG, mut_ref, watching, installed, cw>>
                 ELSE /\ CONFIG' = Some(Config_default.val)
                      /\ installed' = [by |-> "init",
                                       cfg |-> Some(Config_default.val),
                                       written |-> FALSE]
                      /\ last' = [Call("init") EXCEPT !.watcher = "None"]
                      /\ UNCHANGED <<pc, mut_ref, watching, cw>>
    /\ UNCHANGED <<shut, aux>>

get_or_default ==
    /\ pc = "running"
    /\ last' = [Call("get") EXCEPT
                  !.ret = IF CONFIG.some THEN CONFIG
                          ELSE Some(Config_default.val)]
    /\ UNCHANGED <<CONFIG, pc, mut_ref, watching, installed, chan, aux>>

get ==
    /\ pc = "running"
    /\ IF CONFIG.some                      \* assert!(CONFIG.is_some())
       THEN /\ last' = [Call("get") EXCEPT !.ret = CONFIG]
            /\ UNCHANGED pc
       ELSE /\ last' = [Call("get") EXCEPT !.panicked = TRUE]
            /\ pc' = "panicked"
    /\ UNCHANGED <<CONFIG, mut_ref, watching, installed, chan, aux>>

get_mut ==
    /\ pc = "running"
    /\ IF CONFIG.some                      \* assert!(CONFIG.is_some())
       THEN /\ last' = [Call("get_mut") EXCEPT !.ret = CONFIG]
            /\ mut_ref' = TRUE
            /\ UNCHANGED pc
       ELSE /\ last' = [Call("get_mut") EXCEPT !.panicked = TRUE]
            /\ pc' = "panicked"
            /\ UNCHANGED mut_ref
    /\ UNCHANGED <<CONFIG, watching, installed, chan, aux>>

\* A holder of the reference get_mut() returned adjusts a transient field
\* (the debug overlay flag) in place.
get_mut_write ==
    /\ pc = "running"
    /\ mut_ref
    /\ CONFIG.some
    /\ CONFIG' = Some([CONFIG.val EXCEPT !.debug = ~CONFIG.val.debug])
    /\ installed' = [installed EXCEPT !.written = TRUE]
    /\ last' = Call("get_mut_write")
    /\ UNCHANGED <<pc, mut_ref, watching, chan, aux>>

reloaded_clobber(cur, r) ==
    IF r.ok THEN Some(r.val) ELSE Some(Config_default.val)

reloaded_merge(cur, r) ==
    IF r.ok
    THEN IF cur.some
         THEN Some([r.val EXCEPT !.debug = cur.val.debug])
         ELSE Some(r.val)
    ELSE cur

reloaded_reset(cur, r) ==
    IF r.ok THEN Some(r.val) ELSE None

\* The match of try_reload: what CONFIG holds after it, given what it held
\* and load's result.
reloaded(cur, r) ==
    IF r.ok THEN Some(r.val) ELSE cur

\* Failing reloads in a row are counted up to MaxStreak.
MaxStreak == 2

\* try_reload(path): `file' is what read_to_string finds at `path'.  The
\* channel and the caller's references are framed by the step that calls it.
try_reload(file) ==
    /\ pc = "running"
    /\ LET r == load(file)
           failing == last.op = "try_reload" /\ ~last.loaded.ok
       IN
       /\ CONFIG' = reloaded(CONFIG, r)
       /\ installed' =
              IF r.ok
              THEN [by |-> "try_reload", cfg |-> Some(r.val), written |-> FALSE]
              ELSE installed
       /\ last' = [Call("try_reload") EXCEPT
                     !.file = file, !.loaded = r,
                     !.streak = IF r.ok THEN 0
                                ELSE IF ~failing THEN 1
                                ELSE IF last.streak < MaxStreak
                                     THEN last.streak + 1 ELSE MaxStreak,
                     !.base = IF r.ok THEN None
                              ELSE IF failing THEN last.base ELSE Some(CONFIG)]
    /\ UNCHANGED <<pc, mut_ref, watching>>

\* Config::watch called on its own (it is pub).
watch_path(path, wenv) ==
    /\ pc = "running"
    /\ LET w == watch(path, wenv) IN
       /\ pc' = IF w \in WatchPanics THEN "panicked" ELSE pc
       /\ watching' = (watching \/ w = "Ok")
       /\ cw' = IF w = "Ok" THEN NewWatcher ELSE cw
       /\ last' = [Call("watch") EXCEPT
                     !.path = Some(path), !.wenv = wenv, !.watch = w,
                     !.watcher = IF w = "Ok" THEN "Some" ELSE "NotReturned",
                     !.panicked = (w \in WatchPanics)]
    /\ UNCHANGED <<CONFIG, mut_ref, installed, shut, aux>>

\* The host calls try_reload on its own.
reload(file) ==
    /\ try_reload(file)
    /\ UNCHANGED <<chan, aux>>

Next ==
    \/ init
    \/ get
    \/ get_mut
    \/ get_mut_write
    \/ \E file \in Files : reload(file)
    \/ \E path \in Paths, wenv \in WatchEnvs : watch_path(path, wenv)

Spec == Init /\ [][Next]_vars

----------------------------------------------------------------------------
(* The watcher's channel, the host loop that drains it, and shutdown *)

\* The notify backend sends a debounced change event to the channel.
fs_event ==
    /\ pc = "running"
    /\ cw.subscribed
    /\ Len(cw.queue) < MaxQueue
    /\ cw' = [cw EXCEPT !.queue = Append(@, "Write")]
    /\ UNCHANGED <<registry, shut, aux>>

\* The host loop receives one event and calls try_reload for it.
host_drain(file) ==
    /\ pc = "running"
    /\ cw.receiver
    /\ cw.queue # <<>>
    /\ cw' = [cw EXCEPT !.queue = Tail(@)]
    /\ shut' = [shut EXCEPT !.late = @ \/ shut.stopped]
    /\ try_reload(file)
    /\ UNCHANGED aux

dropped_keep_receiver(w) == [w EXCEPT !.subscribed = FALSE]

\* A dropped ConfigWatcher: both fields are dropped with it, the watcher
\* (its subscription) and the receiver (with the events still queued).
dropped(w) == [subscribed |-> FALSE, receiver |-> FALSE, queue |-> <<>>]

\* Shutdown: the ConfigWatcher that init() returned is dropped.
drop_watcher ==
    /\ pc = "running"
    /\ watching
    /\ ~shut.stopped
    /\ cw' = dropped(cw)
    /\ watching' = FALSE
    /\ shut' = [shut EXCEPT !.stopped = TRUE, !.discarded = Len(cw.queue)]
    /\ last' = Call("drop")
    /\ UNCHANGED <<CONFIG, pc, mut_ref, installed, aux>>

NextWatcher ==
    \/ init
    \/ fs_event
    \/ \E file \in Files : host_drain(file)
    \/ drop_watcher

SpecWatcher == Init /\ [][NextWatcher]_vars

----------------------------------------------------------------------------
(* A caller that keeps the reference get() returned across reloads *)

\* get(): the caller keeps the &'static Config and a reference into its
\* layout tree.
reader_get ==
    /\ pc = "running"
    /\ CONFIG.some
    /\ reader' = [held |-> TRUE, dangling |-> FALSE, old |-> CONFIG]
    /\ last' = [Call("get") EXCEPT !.ret = CONFIG]
    /\ UNCHANGED <<CONFIG, pc, mut_ref, watching, installed, chan, obs, pure>>

\* CONFIG = Some(cfg) drops the Config it replaces, with its layout tree:
\* a reference held into that tree dangles from then on.
assigned(rd, r) ==
    IF r.ok /\ rd.held THEN [rd EXCEPT !.dangling = TRUE] ELSE rd

reader_reload(file) ==
    /\ try_reload(file)
    /\ reader' = assigned(reader, load(file))
    /\ UNCHANGED <<chan, obs, pure>>

\* Where a read through the caller's &'static Config may find its value.
\* While the reference is valid, in the installed Config.  After the
\* assignment behind its back (a write through an aliased shared reference),
\* in the installed Config or in the one the reference was taken from, field
\* by field: the build may keep a loaded field or load it again.
read_from(rd, cur) == IF rd.dangling THEN {rd.old, cur} ELSE {cur}

\* The layout tree owns its child blocks on the heap; the dropped Config's
\* blocks are freed, and a reference kept into them finds freed memory.
tree_read_from(rd, cur) == read_from(rd, cur) \cup (IF rd.dangling THEN {None} ELSE {})

\* The caller reads the fields of the Config through its references.
reader_read ==
    /\ pc = "running"
    /\ reader.held
    /\ \E t, d, k \in read_from(reader, CONFIG) :
       \E tree \in tree_read_from(reader, CONFIG) :
         obs' = Some([timeout   |-> t.val.timeout,
                      debug     |-> d.val.debug,
                      shortcuts |-> k.val.shortcuts,
                      layout    |-> IF tree.some THEN Some(tree.val.layout) ELSE None])
    /\ UNCHANGED <<registry, chan, reader, pure>>

NextReaders ==
    \/ init
    \/ reader_get
    \/ \E file \in Files : reader_reload(file)
    \/ reader_read

SpecReaders == Init /\ [][NextReaders]_vars

----------------------------------------------------------------------------
(* The pure functions, each applied to every input within the bounds *)

\* The call returns: its result is stored next to its input.
Return(result) ==
    /\ ~pure.output.some
    /\ pure' = [pure EXCEPT !.output = Some(result)]
    /\ UNCHANGED <<registry, chan, reader, obs>>

InitLocator ==
    /\ Start
    /\ \E env \in Envs :
         pure = [fn |-> "installed_config", input |-> env, output |-> None]

call_installed_config ==
    /\ pure.fn = "installed_config"
    /\ Return(installed_config(pure.input))

SpecLocator == InitLocator /\ [][call_installed_config]_vars

InitLoader ==
    /\ Start
    /\ \E file \in Documents :
         pure = [fn |-> "load", input |-> file, output |-> None]

call_load ==
    /\ pure.fn = "load"
    /\ Return(load(pure.input))

SpecLoader == InitLoader /\ [][call_load]_vars

InitDimensions ==
    /\ Start
    /\ \E self \in TextDimensionVariants, notification \in Notifications :
         pure = [fn |-> "get_dimensions",
                 input |-> [self |-> self, notification |-> notification],
                 output |-> None]

call_get_dimensions ==
    /\ pure.fn = "get_dimensions"
    /\ Return(get_dimensions(pure.input.self, pure.input.notification))

SpecDimensions == InitDimensions /\ [][call_get_dimensions]_vars

----------------------------------------------------------------------------
(* Claims *)

\* The Config a document describes, field by field.
DocConfig(file) ==
    [layout |-> [params |-> file.root],
     timeout |-> file.timeout, debug |-> file.debug,
     shortcuts |-> file.shortcuts]

EmbeddedConfig ==
    [layout |-> [params |-> "NotificationBlock"],
     timeout |-> 0, debug |-> FALSE,
     shortcuts |-> [notification_close |-> 1, notification_closeall |-> 2,
                    notification_pause |-> 3, notification_url |-> 4]]

\* C1: a try_reload whose load fails (Io, Ron or Validate) leaves CONFIG as
\* it found it, and after any run of consecutive failing reloads CONFIG is
\* still what it was before the first of them.
C1_FailedReloadKeepsConfig ==
    (last.op = "try_reload" /\ ~last.loaded.ok) =>
        /\ CONFIG = last.pre
        /\ last.streak >= 1
        /\ last.base = Some(CONFIG)

C1_Witness ==
    /\ last.op = "try_reload"
    /\ last.loaded = Err("Validate")
    /\ last.streak = MaxStreak
    /\ last.pre.some
    /\ installed.by = "try_reload"

\* C2: whenever the Registry is initialized, the root layout element of the
\* installed Config is a NotificationBlock, the embedded default included.
C2_RootIsNotificationBlock ==
    CONFIG.some => CONFIG.val.layout.params = "NotificationBlock"

C2_Witness ==
    /\ last.op = "init"
    /\ last.found.some
    /\ ~last.loaded.ok
    /\ CONFIG = Some(EmbeddedConfig)

\* C3: load of a readable, well-formed document whose root is not a
\* NotificationBlock returns the Validate error, which carries no Config,
\* and the document's Config is not installed.
C3_NonBlockRootRejected ==
    (/\ last.loaded # None
     /\ last.file.readable /\ last.file.wellformed
     /\ last.file.root # "NotificationBlock") =>
        /\ last.loaded = Err("Validate")
        /\ CONFIG # Some(DocConfig(last.file))

C3_Witness ==
    /\ last.op = "try_reload"
    /\ last.pre.some
    /\ last.file.readable /\ last.file.wellformed
    /\ last.file.root = "TextBlock"

\* C4: init() on an uninitialized Registry leaves it initialized: with the
\* document's Config when a path was found and the document loads, with the
\* embedded default when a path was found and load failed or when no path
\* was found; and init() panics only in watch(), never for a Locator or
\* Loader error.
C4_InitAlwaysInstalls ==
    (last.op = "init" /\ ~last.pre.some) =>
        LET loads == /\ last.file.readable /\ last.file.wellformed
                     /\ last.file.root = "NotificationBlock"
        IN
        /\ CONFIG.some
        /\ (last.found.some /\ loads) => CONFIG = Some(DocConfig(last.file))
        /\ (last.found.some /\ ~loads) => CONFIG = Some(EmbeddedConfig)
        /\ ~last.found.some => CONFIG = Some(EmbeddedConfig)
        /\ last.panicked => last.watch \in WatchPanics

C4_Witness ==
    /\ last.op = "init"
    /\ ~last.pre.some
    /\ last.found.some
    /\ last.loaded = Err("Ron")
    /\ CONFIG = Some(EmbeddedConfig)
    /\ ~last.panicked

\* C5: init() on an initialized Registry panics on its assertion and leaves
\* CONFIG as it was.
C5_SecondInitFailsFast ==
    (last.op = "init" /\ last.pre.some) =>
        /\ last.panicked
        /\ pc = "panicked"
        /\ CONFIG = last.pre
        /\ last.found = None /\ last.loaded = None

C5_Witness ==
    /\ last.op = "init"
    /\ last.pre.some
    /\ installed.by = "init"

\* C6: get() and get_mut() on an uninitialized Registry panic and return
\* nothing; when either returns, the Registry is initialized and what it
\* returns refers to the installed Config.
C6_GetNeedsInit ==
    (last.op \in {"get", "get_mut"}) =>
        /\ ~last.pre.some => (last.panicked /\ pc = "panicked" /\ last.ret = None)
        /\ ~last.panicked => (CONFIG.some /\ last.ret = CONFIG)

C6_Witness ==
    /\ last.op \in {"get", "get_mut"}
    /\ ~last.pre.some
    /\ last.panicked

\* C7: the Registry becomes initialized only by init() (try_reload on an
\* uninitialized Registry installs nothing), and once initialized it never
\* becomes uninitialized again.
C7_NoImplicitCreation ==
    /\ (~last.pre.some /\ CONFIG.some) => last.op = "init"
    /\ last.pre.some => CONFIG.some

\* C8: when the backend is available and the containing directory is missing
\* or may not be watched, watch() returns the Watch error and does not
\* panic; init() then returns no watcher and CONFIG stays installed.
C8_WatchFailureIsReported ==
    (/\ last.watch # "NotCalled"
     /\ last.wenv.spawn
     /\ (~last.wenv.dir_exists \/ ~last.wenv.watchable)) =>
        /\ last.watch = "ErrWatch"
        /\ ~last.panicked
        /\ last.op = "init" => (last.watcher = "None" /\ CONFIG.some)

\* C9 as stated: after a successful try_reload of C', every get() returns
\* C' until the next successful reload.
C9_AsStated ==
    /\ (last.op = "try_reload" /\ last.pre.some /\ last.loaded.ok) =>
           CONFIG = Some(DocConfig(last.file))
    /\ (installed.by = "try_reload" /\ last.op = "get" /\ ~last.panicked) =>
           last.ret = installed.cfg

\* C9 (amended): a successful try_reload on an initialized Registry installs
\* exactly the document's Config, nothing carried over; and every get()
\* returns it until the next successful reload or the first write through a
\* get_mut() reference.
C9_SuccessfulReloadInstalls ==
    /\ (last.op = "try_reload" /\ last.pre.some /\ last.loaded.ok) =>
           CONFIG = Some(DocConfig(last.file))
    /\ (/\ installed.by = "try_reload" /\ ~installed.written
        /\ last.op = "get" /\ ~last.panicked) =>
           last.ret = installed.cfg

C9_Witness ==
    /\ installed.by = "try_reload"
    /\ ~installed.written
    /\ mut_ref
    /\ last.op = "get"
    /\ last.pre.some
    /\ last.ret = installed.cfg
    /\ installed.cfg # Some(EmbeddedConfig)

\* C10 as stated: on an initialized Registry the installed Config changes
\* only by a successful reload.
C10_AsStated ==
    (last.pre.some /\ CONFIG # last.pre) =>
        (last.op = "try_reload" /\ last.loaded.ok)

\* C10 (amended): on an initialized Registry the installed Config changes
\* only by a successful reload or by a write through a reference that
\* get_mut() returned; get, get_mut, failed reloads, a second init and
\* watch never change it.
C10_OnlyReloadOrMutWrite ==
    (last.pre.some /\ CONFIG # last.pre) =>
        \/ last.op = "try_reload" /\ last.loaded.ok
        \/ last.op = "get_mut_write" /\ mut_ref

C10_Witness ==
    /\ last.op = "get_mut_write"
    /\ installed.by = "try_reload"
    /\ CONFIG # last.pre
    /\ CONFIG # installed.cfg

\* C13: the Locator returns the lowest-numbered candidate that exists (1:
\* XDG under the `wired' prefix, 2: XDG base directories, 3:
\* $HOME/.config/wired/wired.ron, 4: $HOME/.wired.ron), and None exactly
\* when none exists.  A candidate exists when its lookup can name it (the
\* XDG base directories are available, HOME is set) and the file is there.
CandidateExists(env, i) ==
    CASE i = 1 -> env.xdg_ok /\ env.xdg_wired
      [] i = 2 -> env.xdg_ok /\ env.xdg_base
      [] i = 3 -> env.home /\ env.home_config
      [] i = 4 -> env.home /\ env.home_dot

C13_LocatorFirstExisting ==
    (pure.fn = "installed_config" /\ pure.output.some) =>
        LET env == pure.input
            r == pure.output.val
        IN
        /\ r.some =>
              /\ r.val \in Paths
              /\ CandidateExists(env, r.val)
              /\ \A j \in Paths : j < r.val => ~CandidateExists(env, j)
        /\ ~r.some <=> (\A i \in Paths : ~CandidateExists(env, i))

C13_Witness ==
    /\ pure.fn = "installed_config"
    /\ pure.output = Some(Some(3))
    /\ pure.input.home_dot
    /\ pure.input.xdg_wired /\ ~pure.input.xdg_ok

\* C14: get_dimensions returns dimensions_image_both, dimensions_image_app,
\* dimensions_image_hint or dimensions as (app image present, hint image
\* present) is (T,T), (T,F), (F,T) or (F,F): one field in each case, chosen
\* by the two presences alone.
C14_FourWaySelection ==
    (pure.fn = "get_dimensions" /\ pure.output.some) =>
        LET self == pure.input.self
            app == pure.input.notification.app_image # None
            hint == pure.input.notification.hint_image # None
            got == pure.output.val
        IN
        /\ (app /\ hint) =>
              got = [of |-> "dimensions_image_both",
                     val |-> self.dimensions_image_both]
        /\ (app /\ ~hint) =>
              got = [of |-> "dimensions_image_app",
                     val |-> self.dimensions_image_app]
        /\ (~app /\ hint) =>
              got = [of |-> "dimensions_image_hint",
                     val |-> self.dimensions_image_hint]
        /\ (~app /\ ~hint) =>
              got = [of |-> "dimensions", val |-> self.dimensions]

C14_Witness ==
    /\ pure.fn = "get_dimensions"
    /\ pure.output.some
    /\ pure.input.notification.app_image # None
    /\ pure.input.notification.hint_image = None
    /\ pure.input.self.dimensions_image_app # pure.input.self.dimensions_image_hint
    /\ pure.output.val.val = pure.input.self.dimensions_image_app

\* C15: load of a readable, well-formed document whose root is a
\* NotificationBlock succeeds, and the Config it returns carries the
\* document's scalars and its four shortcut key codes unchanged; key codes
\* that are not distinct do not make it fail.
C15_LoadRoundTrips ==
    (/\ pure.fn = "load" /\ pure.output.some
     /\ pure.input.readable /\ pure.input.wellformed
     /\ pure.input.root = "NotificationBlock") =>
        LET doc == pure.input
            r == pure.output.val
        IN
        /\ r.ok
        /\ r.val.timeout = doc.timeout
        /\ r.val.debug = doc.debug
        /\ r.val.shortcuts.notification_close = doc.shortcuts.notification_close
        /\ r.val.shortcuts.notification_closeall =
               doc.shortcuts.notification_closeall
        /\ r.val.shortcuts.notification_pause = doc.shortcuts.notification_pause
        /\ r.val.shortcuts.notification_url = doc.shortcuts.notification_url
        /\ r.val.layout.params = "NotificationBlock"

C15_Witness ==
    /\ pure.fn = "load"
    /\ pure.output.some
    /\ pure.output.val.ok
    /\ pure.output.val.val.timeout = MaxTimeout
    /\ pure.output.val.val.debug
    /\ pure.input.shortcuts.notification_close =
           pure.input.shortcuts.notification_url
    /\ pure.output.val.val.shortcuts.notification_close =
           pure.output.val.val.shortcuts.notification_url

C17_LoadErrorOrder ==
    (pure.fn = "load" /\ pure.output.some) =>
        LET doc == pure.input
            r == pure.output.val
        IN
        /\ ~doc.readable => r = Err("Io")
        /\ (doc.readable /\ ~doc.wellformed) => r = Err("Ron")
        /\ (doc.readable /\ doc.wellformed /\ doc.root # "NotificationBlock")
              => r = Err("Validate")
        /\ ~r.ok => r \in {Err("Io"), Err("Ron"), Err("Validate")}
        /\ r = Err("Validate") => (doc.readable /\ doc.wellformed)

C17_Witness ==
    /\ pure.fn = "load"
    /\ pure.output = Some(Err("Io"))
    /\ pure.input.wellformed
    /\ pure.input.root = "NotificationBlock"

\* What a read of the whole Config c returns.
WholeRead(c) ==
    Some([timeout   |-> c.val.timeout,
          debug     |-> c.val.debug,
          shortcuts |-> c.val.shortcuts,
          layout    |-> Some(c.val.layout)])

\* C11: a caller that reads through a reference obtained from get(), before
\* or after a successful try_reload, reads a whole Config: the one it
\* obtained or the one installed now, never a mixture of the fields of the
\* two and never a destroyed value.
C11_ReadsAreWhole ==
    obs.some => \E c \in {reader.old, CONFIG} : c.some /\ obs = WholeRead(c)

\* C18: once the ConfigWatcher is dropped, its subscription is released,
\* its receiver is gone with the events still queued, and no try_reload
\* triggered by a watcher event is applied afterwards.
C18_NoReloadAfterStop ==
    /\ shut.stopped =>
          /\ ~cw.subscribed
          /\ ~cw.receiver
          /\ cw.queue = <<>>
    /\ ~shut.late

C18_Witness ==
    /\ shut.stopped
    /\ shut.discarded > 0
    /\ installed.by = "try_reload"
    /\ pc = "running"

====
